---- MODULE Spec2Model ----
(***************************************************************************)
(* Model of logger.py: Logger (a wrapper over the process-wide root logger *)
(* of the standard logging facility) and LoggerSet (an insertion-ordered   *)
(* mapping from names to Logger objects).                                  *)
(*                                                                         *)
(* Text is modelled as sequences of one-character strings, so that len(),  *)
(* rstrip() and string concatenation are computed as the code does.        *)
(***************************************************************************)
EXTENDS Integers, Sequences, FiniteSets, TLC

(***************************************************************************)
(* Bounds of the model.                                                    *)
(***************************************************************************)
MaxLoggers == 3         \* Logger objects constructed in one process
MaxRecords == 2         \* records in the files before another log is started
MaxPrints == 2          \* print() calls made before another log is started
MaxArgs == 2            \* length of the *args tuple of LoggerSet / propagate
MaxDepth == 3           \* depth of the call stack at the raise of an error
\* the same four, for the runs that explore the LoggerSet ...
SetLoggers == 3
SetRecords == 1
SetPrints == 1
SetArgs == 2
\* ... propagate ...
PropagateLoggers == 2
PropagateRecords == 1
PropagatePrints == 1
PropagateArgs == 3
\* ... and the inputs of log
RenderLoggers == 1
RenderRecords == 1
RenderPrints == 1
RenderArgs == 2

(***************************************************************************)
(* Text helpers.                                                           *)
(***************************************************************************)
Spaces(n) == [i \in 1..n |-> " "]

DigitChar(d) == <<"0", "1", "2", "3", "4", "5", "6", "7", "8", "9">>[d + 1]

RECURSIVE Str(_)
\* str(n) of a natural number, as an f-string renders it (no padding)
Str(n) == IF n < 10 THEN <<DigitChar(n)>>
          ELSE Str(n \div 10) \o <<DigitChar(n % 10)>>

RECURSIVE KeptLen(_, _, _)
\* the length left of s[1..n] once its trailing characters in chars are dropped
KeptLen(s, n, chars) ==
    IF n > 0 /\ s[n] \in chars THEN KeptLen(s, n - 1, chars) ELSE n

\* s.rstrip(chars): drops every trailing character that is in the set chars
rstrip(s, chars) == SubSeq(s, 1, KeptLen(s, Len(s), chars))

\* the characters of the argument of rstrip at line 156: " --> \n"
StripChars == {" ", "-", ">", "\n"}

Separator == <<" ", "-", "-", ">", " ", "\n">>

DashCount == 20

(***************************************************************************)
(* Errors and frames.  An error that was raised and caught carries the     *)
(* call stack at the raise (outermost frame first) and the index of the    *)
(* frame whose try block caught it: error.__traceback__ is the traceback   *)
(* entry of that catching frame, and tb_next leads from it down to the     *)
(* frame of the raise.  A frame's f_back is its caller.                    *)
(***************************************************************************)
NoError == [isNone |-> TRUE, text |-> <<>>, stack |-> <<>>, caught |-> 0]

\* error.__traceback__.tb_frame: the frame that caught the error
tb_frame(error) == error.caught

\* frame.f_back: the caller's index, 0 standing for None
f_back(frame) == frame - 1

RECURSIVE WalkFrom(_, _)
\* the frames the while loop of log visits, in the order it visits them
WalkFrom(error, frame) ==
    IF frame = 0 THEN <<>>
    ELSE <<error.stack[frame]>> \o WalkFrom(error, f_back(frame))

WalkFrames(error) == WalkFrom(error, tb_frame(error))

\* the preamble of the traceback block (line 147)
Preamble(error) ==
    <<"\n", "O", "r", "i", "g", "i", "n", "a", "l", " ", "E", "r", "r", "o", "r", ":", " ">>
    \o error.text \o <<" ", "i", "n", ":", " ", "\n">>

\* one pass of the loop body (lines 153-154)
FrameLine(indentation, fr) ==
    Spaces(indentation)
    \o <<"-", " ", "L", "i", "n", "e", " ">> \o Str(fr.f_lineno)
    \o <<" ", "a", "t", " ">> \o fr.co_name
    \o <<" ", "f", "u", "n", "c", "t", "i", "o", "n", " ", "o", "f", " ", "f", "i", "l", "e", " ">>
    \o fr.co_filename \o Separator

RECURSIVE Lines(_, _)
Lines(indentation, frames) ==
    IF frames = <<>> THEN <<>>
    ELSE FrameLine(indentation, Head(frames)) \o Lines(indentation, Tail(frames))

\* the trimming of the accumulated block (line 156)
TrimBlock(block) == rstrip(block, StripChars) \o <<"\n">>

\* the traceback block built from a given list of frames (lines 147-156)
RenderBlock(error, frames) ==
    TrimBlock(Preamble(error) \o Lines(Len(Preamble(error)), frames))

\* extra_info of log (lines 146-158)
extra_info(traceback_log, error) ==
    IF traceback_log THEN RenderBlock(error, WalkFrames(error)) ELSE <<>>

\* basic_info of log (line 143); t is the local time read at line 140
basic_info(t, msg) ==
    t.date \o <<" ">> \o Str(t.hour) \o <<":">> \o Str(t.minute) \o <<" ", "|", " ">> \o msg

\* output_msg of log (lines 161-162)
output_msg(t, msg, traceback_log, error) ==
    basic_info(t, msg) \o extra_info(traceback_log, error) \o [i \in 1..DashCount |-> "-"]

\* keys of Logger.LOG_TYPES
LOG_TYPES == {"info", "debug", "warning", "critical"}


(***************************************************************************)
(* State.                                                                  *)
(*   rootHandler  the file handler of the process-wide root logger, which  *)
(*                logging.basicConfig installs and logging.info & co. use  *)
(*   dirs         the directories that exist                               *)
(*   files        the log files that exist: path -> records appended       *)
(*   stdout       what print() wrote, one entry per call                   *)
(*   objs         the Logger objects constructed so far (id = index)       *)
(*   built        whether the LoggerSet has been constructed               *)
(*   loggers      LoggerSet.loggers: an insertion-ordered dict name -> id  *)
(*   last         the operation just performed, its inputs and outcome     *)
(***************************************************************************)
VARIABLES rootHandler, dirs, files, stdout, objs, built, loggers, last

vars == <<rootHandler, dirs, files, stdout, objs, built, loggers, last>>

\* A directory is a sequence of path components below the working directory.
Cwd == <<>>
Parent(dir) == SubSeq(dir, 1, Len(dir) - 1)

\* f'{log_directory}/{name}.log'
Path(dir, name) == [dir |-> dir, name |-> name]

NoHandler == [set |-> FALSE, path |-> Path(Cwd, "")]

\* the records of a file; a file that does not exist holds none
Records(fs, path) == IF path \in DOMAIN fs THEN fs[path] ELSE <<>>

RECURSIVE SumLen(_, _)
SumLen(fs, ps) ==
    IF ps = {} THEN 0
    ELSE LET p == CHOOSE q \in ps : TRUE IN Len(fs[p]) + SumLen(fs, ps \ {p})

TotalRecords(fs) == SumLen(fs, DOMAIN fs)

(***************************************************************************)
(* The insertion-ordered dict of LoggerSet, a sequence of (key, id) pairs. *)
(***************************************************************************)
Keys(d) == [i \in 1..Len(d) |-> d[i].key]
KeySet(d) == {d[i].key : i \in 1..Len(d)}
Lookup(d, k) == d[CHOOSE i \in 1..Len(d) : d[i].key = k].id
SetItem(d, k, v) ==
    IF k \in KeySet(d)
    THEN [i \in 1..Len(d) |-> IF d[i].key = k THEN [key |-> k, id |-> v] ELSE d[i]]
    ELSE Append(d, [key |-> k, id |-> v])
DelItem(d, k) == SelectSeq(d, LAMBDA e : e.key # k)

(***************************************************************************)
(* Operations are functions on a "world" w: the state they read and write  *)
(* plus exc, the exception that left the operation ("" for none), and      *)
(* calls, the ids of the Loggers whose log was called by the operation.    *)
(***************************************************************************)
World ==
    [rootHandler |-> rootHandler, dirs |-> dirs, files |-> files, stdout |-> stdout,
     objs |-> objs, loggers |-> loggers, exc |-> "", calls |-> <<>>]

\* logging.basicConfig(filename=path, level=logging.DEBUG): does nothing when
\* the root logger already has a handler; otherwise opens the file for
\* appending (which needs its directory) and installs the handler.
basicConfig(w, path) ==
    IF w.rootHandler.set THEN w
    ELSE IF path.dir \notin w.dirs THEN [w EXCEPT !.exc = "FileNotFoundError"]
    ELSE [w EXCEPT !.rootHandler = [set |-> TRUE, path |-> path],
                   !.files = IF path \in DOMAIN @ THEN @ ELSE (path :> <<>>) @@ @]

\* os.mkdir(dir): one level only
mkdir(w, dir) ==
    IF dir \in w.dirs THEN [w EXCEPT !.exc = "FileExistsError"]
    ELSE IF Parent(dir) \notin w.dirs THEN [w EXCEPT !.exc = "FileNotFoundError"]
    ELSE [w EXCEPT !.dirs = @ \cup {dir}]

\* the try/except of Logger.__init__ (lines 121-125)
ConfigureSink(w, name, log_directory) ==
    LET first == basicConfig(w, Path(log_directory, name))
    IN  IF first.exc = "FileNotFoundError"
        THEN LET made == mkdir(w, log_directory)
             IN  IF made.exc # "" THEN made
                 ELSE basicConfig(made, Path(log_directory, name))
        ELSE first

\* Logger.__init__: the new object is the last of w.objs when exc = ""
LoggerInit(w, name, log_directory, printed, traceback_log) ==
    LET c == ConfigureSink(w, name, log_directory)
    IN  IF c.exc # "" THEN c
        ELSE [c EXCEPT !.objs = Append(@, [name |-> name, log_directory |-> log_directory,
                                           printed |-> printed,
                                           traceback_log |-> traceback_log,
                                           log_count |-> 0])]

\* logging.info / debug / warning / critical (msg): the root logger hands the
\* record to its handler, whose file is the one basicConfig installed.
Emit(w, log_type, text) ==
    IF w.rootHandler.set
    THEN [w EXCEPT !.files[w.rootHandler.path] = Append(@, [level |-> log_type, text |-> text])]
    ELSE w

\* print(indentation) at line 150
PrintIndentation(w, traceback_log, error) ==
    IF traceback_log THEN [w EXCEPT !.stdout = Append(@, Str(Len(Preamble(error))))] ELSE w

\* if self.printed: print(output_msg) (lines 164-165)
PrintOutput(w, printed, text) ==
    IF printed THEN [w EXCEPT !.stdout = Append(@, text)] ELSE w

\* the dispatch and the counter (lines 167-168)
Dispatch(w, id, log_type, text) ==
    IF log_type \notin LOG_TYPES THEN [w EXCEPT !.exc = "KeyError"]
    ELSE [Emit(w, log_type, text) EXCEPT !.objs[id].log_count = @ + 1]

\* Logger.log(msg, log_type, error) of the Logger id, at local time t
log(w, id, t, msg, log_type, error) ==
    LET self == w.objs[id]
        called == [w EXCEPT !.calls = Append(@, id)]
    IN  IF self.traceback_log /\ error.isNone
        THEN [called EXCEPT !.exc = "AttributeError"]   \* None.__traceback__
        ELSE LET text == output_msg(t, msg, self.traceback_log, error)
                 p1 == PrintIndentation(called, self.traceback_log, error)
                 p2 == PrintOutput(p1, self.printed, text)
             IN  Dispatch(p2, id, log_type, text)


(***************************************************************************)
(* LoggerSet.                                                              *)
(***************************************************************************)
RECURSIVE BuildLoggers(_, _, _, _, _)
\* the dict comprehension of LoggerSet.__init__ (lines 20-21): one Logger per
\* element of args, in order; w.loggers is the dict being built
BuildLoggers(w, args, log_directory, printed, traceback_log) ==
    IF args = <<>> THEN w
    ELSE LET c == LoggerInit(w, Head(args), log_directory, printed, traceback_log)
         IN  IF c.exc # "" THEN c
             ELSE BuildLoggers([c EXCEPT !.loggers = SetItem(@, Head(args), Len(c.objs))],
                               Tail(args), log_directory, printed, traceback_log)

\* refresh as it would be with self.loggers.get(name): a name that is no
\* member is passed over in silence
refresh_ignoring_missing(w, name) ==
    IF name \notin KeySet(w.loggers) THEN w
    ELSE LET old == w.objs[Lookup(w.loggers, name)]
             c == LoggerInit(w, old.name, old.log_directory, old.printed, old.traceback_log)
         IN  IF c.exc # "" THEN c
             ELSE [c EXCEPT !.loggers = SetItem(@, name, Len(c.objs))]

\* LoggerSet.refresh(name) (lines 29-30): the right-hand side reads
\* self.loggers[name] before anything is assigned
refresh(w, name) ==
    IF name \notin KeySet(w.loggers) THEN [w EXCEPT !.exc = "KeyError"]
    ELSE LET old == w.objs[Lookup(w.loggers, name)]
             c == LoggerInit(w, old.name, old.log_directory, old.printed, old.traceback_log)
         IN  IF c.exc # "" THEN c
             ELSE [c EXCEPT !.loggers = SetItem(@, name, Len(c.objs))]

\* the filter as it would be when run over the mapping's keys instead of args
RequestedInMappingOrder(d, args) ==
    SelectSeq(Keys(d), LAMBDA k : \E i \in 1..Len(args) : args[i] = k)

\* filter(lambda x: x in self.loggers.keys(), args) (line 44)
Requested(d, args) == SelectSeq(args, LAMBDA x : x \in KeySet(d))

RECURSIVE Deliver(_, _, _, _, _, _)
\* the for loop of propagate (lines 44-45); an exception of log leaves the loop
Deliver(w, names, t, msg, log_type, error) ==
    IF names = <<>> THEN w
    ELSE LET r == log(w, Lookup(w.loggers, Head(names)), t, msg, log_type, error)
         IN  IF r.exc # "" THEN r
             ELSE Deliver(r, Tail(names), t, msg, log_type, error)

\* LoggerSet.propagate(*args, msg, log_type, error)
propagate(w, args, t, msg, log_type, error) ==
    Deliver(w, Requested(w.loggers, args), t, msg, log_type, error)

\* LoggerSet.propagate_all(msg, log_type, error) (line 57)
propagate_all(w, t, msg, log_type, error) ==
    propagate(w, Keys(w.loggers), t, msg, log_type, error)

\* LoggerSet.__delitem__(key) (lines 76-79)
delitem(w, key) == [w EXCEPT !.loggers = DelItem(@, key)]

\* names that ordinary attribute lookup finds on a LoggerSet object: the
\* instance attribute set at line 20 and the methods of the class
InstanceAttrs == {"loggers"}
ClassAttrs == {"refresh", "propagate", "propagate_all"}

NoRet == [kind |-> "-", id |-> 0]

\* LoggerSet.__getattr__(item) (line 65): self.loggers.get(item, None)
getattr(d, item) ==
    IF item \in KeySet(d) THEN [kind |-> "Logger", id |-> Lookup(d, item)]
    ELSE [kind |-> "None", id |-> 0]

\* the attribute access  set.<item>: __getattr__ runs only when ordinary
\* lookup finds nothing
Attribute(d, item) ==
    IF item \in InstanceAttrs THEN [kind |-> "dict", id |-> 0]
    ELSE IF item \in ClassAttrs THEN [kind |-> "method", id |-> 0]
    ELSE getattr(d, item)

(***************************************************************************)
(* Actions.                                                                *)
(***************************************************************************)
NoTime == [date |-> <<>>, hour |-> 0, minute |-> 0]
NoLog == [t |-> NoTime, msg |-> <<>>, log_type |-> "", error |-> NoError]
LogInput(t, msg, log_type, error) ==
    [t |-> t, msg |-> msg, log_type |-> log_type, error |-> error]

Result(w) == IF w.exc = "" THEN "ok" ELSE w.exc

Commit(w) ==
    /\ rootHandler' = w.rootHandler
    /\ dirs' = w.dirs
    /\ files' = w.files
    /\ stdout' = w.stdout
    /\ objs' = w.objs
    /\ loggers' = w.loggers

Init ==
    /\ rootHandler = NoHandler
    /\ dirs = {Cwd}
    /\ files = <<>>
    /\ stdout = <<>>
    /\ objs = <<>>
    /\ built = FALSE
    /\ loggers = <<>>
    /\ last = [op |-> "start", names |-> <<>>, dir |-> Cwd, id |-> 0, log |-> NoLog,
               result |-> "ok", ret |-> NoRet, calls |-> <<>>]

\* Logger(name, log_directory=dir, printed=printed, traceback_log=tb)
NewLogger(name, dir, printed, tb) ==
    /\ LET w == LoggerInit(World, name, dir, printed, tb)
       IN  /\ Commit(w)
           /\ last' = [op |-> "Logger", names |-> <<name>>, dir |-> dir,
                       id |-> IF w.exc = "" THEN Len(w.objs) ELSE 0, log |-> NoLog,
                       result |-> Result(w), ret |-> NoRet, calls |-> <<>>]
    /\ UNCHANGED built

\* LoggerSet(*args, log_directory=dir, printed=printed, traceback_log=tb);
\* when a member's construction raises, no LoggerSet comes into being
NewLoggerSet(args, dir, printed, tb) ==
    /\ ~built
    /\ LET w == BuildLoggers(World, args, dir, printed, tb)
       IN  /\ IF w.exc = "" THEN Commit(w)
              ELSE Commit([w EXCEPT !.loggers = loggers, !.objs = objs])
           /\ built' = (w.exc = "")
           /\ last' = [op |-> "LoggerSet", names |-> args, dir |-> dir, id |-> 0,
                       log |-> NoLog, result |-> Result(w), ret |-> NoRet, calls |-> <<>>]

\* logger.log(msg, log_type, error) on the Logger object id
Log(id, t, msg, log_type, error) ==
    /\ id \in 1..Len(objs)
    /\ LET w == log(World, id, t, msg, log_type, error)
       IN  /\ Commit(w)
           /\ last' = [op |-> "log", names |-> <<>>, dir |-> Cwd, id |-> id,
                       log |-> LogInput(t, msg, log_type, error),
                       result |-> Result(w), ret |-> NoRet, calls |-> w.calls]
    /\ UNCHANGED built

\* set.refresh(name)
Refresh(name) ==
    /\ built
    /\ LET w == refresh(World, name)
       IN  /\ Commit(w)
           /\ last' = [op |-> "refresh", names |-> <<name>>, dir |-> Cwd,
                       id |-> IF w.exc = "" THEN Len(w.objs) ELSE 0, log |-> NoLog,
                       result |-> Result(w), ret |-> NoRet, calls |-> <<>>]
    /\ UNCHANGED built

\* set.propagate(*args, msg=msg, log_type=log_type, error=error)
Propagate(args, t, msg, log_type, error) ==
    /\ built
    /\ LET w == propagate(World, args, t, msg, log_type, error)
       IN  /\ Commit(w)
           /\ last' = [op |-> "propagate", names |-> args, dir |-> Cwd, id |-> 0,
                       log |-> LogInput(t, msg, log_type, error),
                       result |-> Result(w), ret |-> NoRet, calls |-> w.calls]
    /\ UNCHANGED built

\* set.propagate_all(msg=msg, log_type=log_type, error=error)
PropagateAll(t, msg, log_type, error) ==
    /\ built
    /\ LET w == propagate_all(World, t, msg, log_type, error)
       IN  /\ Commit(w)
           /\ last' = [op |-> "propagate_all", names |-> <<>>, dir |-> Cwd, id |-> 0,
                       log |-> LogInput(t, msg, log_type, error),
                       result |-> Result(w), ret |-> NoRet, calls |-> w.calls]
    /\ UNCHANGED built

\* set.<item>
Get(item) ==
    /\ built
    /\ last' = [op |-> "get", names |-> <<item>>, dir |-> Cwd, id |-> 0, log |-> NoLog,
                result |-> "ok", ret |-> Attribute(loggers, item), calls |-> <<>>]
    /\ UNCHANGED <<rootHandler, dirs, files, stdout, objs, built, loggers>>

\* del set[key]; last.id is the Logger that left the mapping, 0 for none
Remove(key) ==
    /\ built
    /\ LET w == delitem(World, key)
       IN  /\ Commit(w)
           /\ last' = [op |-> "remove", names |-> <<key>>, dir |-> Cwd,
                       id |-> IF key \in KeySet(loggers) THEN Lookup(loggers, key) ELSE 0,
                       log |-> NoLog, result |-> Result(w), ret |-> NoRet, calls |-> <<>>]
    /\ UNCHANGED built


(***************************************************************************)
(* Inputs.                                                                 *)
(***************************************************************************)
Tuples(S, n) == UNION {[1..k -> S] : k \in 0..n}

Now == [date |-> <<"2", "0", "2", "4", "-", "0", "1", "-", "0", "5">>, hour |-> 9, minute |-> 41]

Boom == <<"b", "o", "o", "m">>
Module == <<"<", "m", "o", "d", "u", "l", "e", ">">>
AppPy == <<"a", "p", "p", ".", "p", "y">>
Stdin == <<"<", "s", "t", "d", "i", "n", ">">>

\* the frame at depth k of a call stack (1 = module level), stopped at line
\* lineno of the file filename
Frame(k, lineno, filename) ==
    [f_lineno |-> lineno, co_name |-> IF k = 1 THEN Module ELSE <<"f">> \o Str(k),
     co_filename |-> filename]

Raised(text, stack, caught) ==
    [isNone |-> FALSE, text |-> text, stack |-> stack, caught |-> caught]

\* every error raised at depth n <= MaxDepth and caught at depth c <= n, each
\* frame being in either file; the frame at depth k is stopped at line 5k + 2
Stacks(n) ==
    {[k \in 1..n |-> Frame(k, 5 * k + 2, file[k])] : file \in [1..n -> {AppPy, Stdin}]}
RaisedErrors ==
    UNION {{Raised(Boom, s, c) : s \in Stacks(n), c \in 1..n} : n \in 1..MaxDepth}

D1 == <<"d1">>
D2 == <<"d2">>
D1S == <<"d1", "s">>

\* the process: Loggers in several directories, one of them nested
ProcessInputs ==
    [names |-> {"a", "b"}, items |-> {"a"},
     dirs |-> {D1, D2, D1S}, printed |-> {FALSE}, traceback |-> {FALSE},
     msgs |-> {<<"h", "i">>}, types |-> {"info"}, errors |-> {NoError},
     maxLoggers |-> MaxLoggers, maxRecords |-> MaxRecords, maxPrints |-> MaxPrints,
     maxArgs |-> MaxArgs]

\* the LoggerSet: one name is also an attribute of the LoggerSet object, and
\* one item asked for is a method of its class
SetInputs ==
    [names |-> {"a", "loggers"}, items |-> {"a", "loggers", "refresh"},
     dirs |-> {D1}, printed |-> {FALSE}, traceback |-> BOOLEAN,
     msgs |-> {<<"h", "i">>}, types |-> {"info"}, errors |-> {NoError},
     maxLoggers |-> SetLoggers, maxRecords |-> SetRecords, maxPrints |-> SetPrints,
     maxArgs |-> SetArgs]

\* propagate: tuples with repeated names and names that are no members, a
\* severity that is none
PropagateInputs ==
    [names |-> {"a", "b"}, items |-> {"a", "b"},
     dirs |-> {D1}, printed |-> {FALSE}, traceback |-> {FALSE},
     msgs |-> {<<"h", "i">>}, types |-> {"info", "bogus"}, errors |-> {NoError},
     maxLoggers |-> PropagateLoggers, maxRecords |-> PropagateRecords,
     maxPrints |-> PropagatePrints, maxArgs |-> PropagateArgs]

\* log: every flag, two severities and one that is none, every error
RenderInputs ==
    [names |-> {"a"}, items |-> {"a"},
     dirs |-> {D1}, printed |-> BOOLEAN, traceback |-> BOOLEAN,
     msgs |-> {<<"h", "i">>}, types |-> {"info", "critical", "bogus"},
     errors |-> {NoError} \cup RaisedErrors,
     maxLoggers |-> RenderLoggers, maxRecords |-> RenderRecords,
     maxPrints |-> RenderPrints, maxArgs |-> RenderArgs]

\* One step of the program on inputs drawn from I.  The conjuncts on
\* I.maxLoggers, I.maxRecords and I.maxPrints keep the explored runs finite.
Step(I) ==
    \/ /\ Len(objs) < I.maxLoggers
       /\ \E name \in I.names, dir \in I.dirs, p \in I.printed, tb \in I.traceback :
             NewLogger(name, dir, p, tb)
    \/ \E args \in Tuples(I.names, I.maxArgs), dir \in I.dirs, p \in I.printed, tb \in I.traceback :
          /\ Len(objs) + Len(args) <= I.maxLoggers
          /\ NewLoggerSet(args, dir, p, tb)
    \/ /\ TotalRecords(files) < I.maxRecords
       /\ Len(stdout) < I.maxPrints
       /\ \E id \in 1..Len(objs), msg \in I.msgs, ty \in I.types, e \in I.errors :
             Log(id, Now, msg, ty, e)
    \/ /\ Len(objs) < I.maxLoggers
       /\ \E name \in I.names : Refresh(name)
    \/ /\ TotalRecords(files) < I.maxRecords
       /\ Len(stdout) < I.maxPrints
       /\ \E args \in Tuples(I.names, I.maxArgs), msg \in I.msgs, ty \in I.types, e \in I.errors :
             Propagate(args, Now, msg, ty, e)
    \/ /\ TotalRecords(files) < I.maxRecords
       /\ Len(stdout) < I.maxPrints
       /\ \E msg \in I.msgs, ty \in I.types, e \in I.errors : PropagateAll(Now, msg, ty, e)
    \/ \E item \in I.items : Get(item)
    \/ \E key \in I.names : Remove(key)

Next == Step(ProcessInputs)
Spec == Init /\ [][Next]_vars

NextSet == Step(SetInputs)
SpecSet == Init /\ [][NextSet]_vars

NextPropagate == Step(PropagateInputs)
SpecPropagate == Init /\ [][NextPropagate]_vars

NextRender == Step(RenderInputs)
SpecRender == Init /\ [][NextRender]_vars


(***************************************************************************)
(* Properties.                                                             *)
(***************************************************************************)
OwnPath(o) == Path(o.log_directory, o.name)

\* the record the last log call handed to the sink
LastRecord == files[rootHandler.path][Len(files[rootHandler.path])]

RECURSIVE Count(_, _)
\* occurrences of x in the sequence s
Count(s, x) == IF s = <<>> THEN 0
               ELSE (IF Head(s) = x THEN 1 ELSE 0) + Count(Tail(s), x)

IsPrefix(s, t) == Len(s) <= Len(t) /\ SubSeq(t, 1, Len(s)) = s

Reverse(s) == [i \in 1..Len(s) |-> s[Len(s) + 1 - i]]

\* C1: the first log call of a Logger, with a recognized severity, appends
\* exactly one record to that Logger's own file {log_directory}/{name}.log and
\* nothing to any other file, whatever Loggers were constructed before.
C1_RecordGoesToOwnFile ==
    [][(last'.op = "log" /\ last'.result = "ok" /\ objs[last'.id].log_count = 0)
        => LET own == OwnPath(objs[last'.id])
           IN  /\ Len(Records(files', own)) = Len(Records(files, own)) + 1
               /\ \A p \in DOMAIN files' \ {own} : Records(files', p) = Records(files, p)]_vars

\* C7: every Logger that was constructed has its log_directory existing,
\* provided the directory's parent exists.
C7_DirectoryExists ==
    \A i \in 1..Len(objs) :
        Parent(objs[i].log_directory) \in dirs => objs[i].log_directory \in dirs

\* C2: right after remove(b) of a member b, propagate_all leaves b's file as
\* it was and get(b) returns None; remove of a name that is no member raises
\* nothing and leaves the mapping unchanged.
C2_RemovedIsSilent ==
    [][/\ (last.op = "remove" /\ last.id # 0 /\ last'.op = "propagate_all")
            => Records(files', OwnPath(objs[last.id])) = Records(files, OwnPath(objs[last.id]))
       /\ (last.op = "remove" /\ last.id # 0 /\ last'.op = "get" /\ last'.names = last.names)
            => last'.ret.kind = "None"
       /\ (last'.op = "remove" /\ last'.names[1] \notin KeySet(loggers))
            => (last'.result = "ok" /\ loggers' = loggers)]_vars

\* C3: refresh(name) of a name that is no member raises and changes nothing;
\* of a member it puts a new Logger with the same name, log_directory, printed
\* and traceback_log and a log_count of 0 in that entry, and leaves the other
\* entries and every other Logger as they were.
C3_Refresh ==
    [][last'.op = "refresh"
        => LET name == last'.names[1]
           IN  IF name \notin KeySet(loggers)
               THEN last'.result = "KeyError" /\ loggers' = loggers /\ objs' = objs
               ELSE LET old == objs[Lookup(loggers, name)]
                        new == Lookup(loggers', name)
                    IN  /\ last'.result = "ok"
                        /\ Keys(loggers') = Keys(loggers)
                        /\ new \notin 1..Len(objs)
                        /\ objs'[new] = [old EXCEPT !.log_count = 0]
                        /\ objs'[new].name = name
                        /\ \A k \in KeySet(loggers) \ {name} :
                              Lookup(loggers', k) = Lookup(loggers, k)
                        /\ \A i \in 1..Len(objs) : objs'[i] = objs[i]]_vars

\* a member that had logged was refreshed, next to another member
C3_Witness ==
    /\ last.op = "refresh" /\ last.result = "ok"
    /\ Len(loggers) >= 2
    /\ objs[last.id].log_count = 0
    /\ \E i \in 1..Len(objs) :
          i # last.id /\ objs[i].name = last.names[1] /\ objs[i].log_count > 0

\* C4: get(item) returns the Logger named item exactly when item is a key of
\* the mapping, and None otherwise, for every item.
C4_GetMatchesMapping ==
    last.op = "get"
        => IF last.names[1] \in KeySet(loggers)
           THEN last.ret.kind = "Logger" /\ objs[last.ret.id].name = last.names[1]
           ELSE last.ret.kind = "None"

RECURSIVE Expected(_, _)
\* the Loggers propagate is to call: one per element of args that is a key of
\* the mapping d, in the order of args
Expected(d, args) ==
    IF args = <<>> THEN <<>>
    ELSE (IF \E i \in 1..Len(d) : d[i].key = Head(args)
          THEN <<d[CHOOSE i \in 1..Len(d) : d[i].key = Head(args)].id>>
          ELSE <<>>) \o Expected(d, Tail(args))

\* C8 as stated: propagate calls log on exactly the requested members, once
\* per occurrence and in the caller's order, changes no mapping, and calls log
\* on no member that was not requested.
C8_DeliversToAllRequested ==
    [][last'.op = "propagate"
        => /\ last'.calls = Expected(loggers, last'.names)
           /\ loggers' = loggers
           /\ \A i \in 1..Len(objs) :
                 Count(last'.calls, i) = 0 => objs'[i].log_count = objs[i].log_count]_vars

\* C8 amended: propagate calls log on the requested members, once per
\* occurrence and in the caller's order, until a log call raises; that error
\* leaves propagate and the names after it are not delivered.  Names that are
\* no members are skipped and raise nothing, the mapping is unchanged, and
\* each log_count grows by the number of calls on it that returned.
C8_DeliversUntilRaise ==
    [][last'.op = "propagate"
        => LET want == Expected(loggers, last'.names)
               got == last'.calls
               done == IF last'.result = "ok" THEN got ELSE SubSeq(got, 1, Len(got) - 1)
           IN  /\ loggers' = loggers
               /\ IsPrefix(got, want)
               /\ last'.result = "ok" => got = want
               /\ last'.result # "ok" => got # <<>>
               /\ \A i \in 1..Len(objs) :
                     objs'[i].log_count = objs[i].log_count + Count(done, i)]_vars

\* two members were called in an order that is not the mapping's, one of
\* them twice
C8_Witness ==
    /\ last.op = "propagate" /\ last.result = "ok"
    /\ Len(last.calls) = 3 /\ last.calls[1] = last.calls[3]
    /\ last.calls = Expected(loggers, last.names)
    /\ \E i, j \in 1..Len(loggers) :
          i < j /\ loggers[j].id = last.calls[1] /\ loggers[i].id = last.calls[2]

\* the text log was to hand to the sink, for the inputs of the last call
LastText(block) ==
    basic_info(last.log.t, last.log.msg) \o block \o [i \in 1..DashCount |-> "-"]

\* the last operation was a log call that rendered a traceback and returned
Rendered ==
    /\ last.op = "log" /\ last.result = "ok"
    /\ objs[last.id].traceback_log
    /\ ~last.log.error.isNone

\* C5: a log call on a Logger whose printed is false writes nothing to
\* standard output; one that returns on a Logger whose printed is true writes
\* the output message exactly once.
C5_PrintsOnlyWhenPrinted ==
    [][last'.op = "log"
        => LET self == objs[last'.id]
               text == output_msg(last'.log.t, last'.log.msg, self.traceback_log,
                                  last'.log.error)
               written == SubSeq(stdout', Len(stdout) + 1, Len(stdout'))
           IN  /\ IsPrefix(stdout, stdout')
               /\ ~self.printed => stdout' = stdout
               /\ (self.printed /\ last'.result = "ok") => Count(written, text) = 1]_vars

\* C9: a log call with a severity that is no key of LOG_TYPES raises, hands
\* nothing to the sink, writes nothing to standard output and counts nothing.
C9_UnknownSeverityFailsFast ==
    [][(last'.op = "log" /\ last'.log.log_type \notin LOG_TYPES)
        => /\ last'.result # "ok"
           /\ files' = files
           /\ stdout' = stdout
           /\ objs' = objs]_vars

\* the frames of the error's traceback, from the frame of the raise out to the
\* frame that caught it
RaiseToCatch(error) == Reverse(SubSeq(error.stack, error.caught, Len(error.stack)))

\* the whole stack at the raise, from the frame of the raise out to the module
RaiseToModule(error) == Reverse(error.stack)

\* C6: for an error raised one or more calls below the frame that caught it,
\* the traceback block lists the frames of the error's chain once each, from
\* the frame of the raise outwards (as far as the catching frame, or as far
\* as the outermost frame).
C6_ListsFramesFromRaise ==
    (Rendered /\ Len(last.log.error.stack) > last.log.error.caught)
        => \/ LastRecord.text
                = LastText(RenderBlock(last.log.error, RaiseToCatch(last.log.error)))
           \/ LastRecord.text
                = LastText(RenderBlock(last.log.error, RaiseToModule(last.log.error)))

\* the frame lines joined by the separator, the last separator removed
JoinedLines(error, frames) ==
    LET all == Lines(Len(Preamble(error)), frames)
    IN  SubSeq(all, 1, Len(all) - Len(Separator))

\* C10: the traceback block is the preamble, the lines of the frames walked
\* joined by " --> \n" with only the last separator removed, and one newline.
C10_OnlySeparatorTrimmed ==
    Rendered
        => LastRecord.text
             = LastText(Preamble(last.log.error)
                        \o JoinedLines(last.log.error, WalkFrames(last.log.error))
                        \o <<"\n">>)

====
